---- MODULE Spec2Model ----
(***************************************************************************)
(* Model of the asteroid impact simulation API (src/app.py): the hazard    *)
(* calculations, the JSON-file impact store (load_impacts / save_impact /  *)
(* delete_impact), the catalog read (get_impacts) and the simulate         *)
(* handler.                                                                *)
(*                                                                         *)
(* Numbers.  Python floats are modelled as decimal floating point values   *)
(* [k, m, e]: kind k ("fin", "nan", "ninf", "cplx"), and for a finite      *)
(* value a signed four-digit mantissa m (1000 <= |m| <= 9999, or 0) and a  *)
(* decimal exponent e, value m * 10^e.  Results of arithmetic are          *)
(* truncated to four significant digits.                                   *)
(***************************************************************************)
EXTENDS Integers, Sequences, FiniteSets, TLC

\* ------------------------------------------------------------------ bounds
MaxStore == 2        \* simulate requests are accepted while the store holds fewer records
MaxOps == 2          \* requests each worker issues in the interleaved specification
MaxMant == 6         \* hazard inputs: mantissas -MaxMant..MaxMant
MaxExp == 3          \* hazard inputs: decimal exponents -1..MaxExp

\* ------------------------------------------------------- program constants
DefaultDiameter == 50
DefaultVelocity == 20
DefaultPopDensity == 1000
AsteroidDensity == 3000
RandLow == 10000
RandHigh == 99999

\* --------------------------------------------------------------- floats
Abs(n) == IF n < 0 THEN -n ELSE n
Sgn(n) == IF n < 0 THEN -1 ELSE IF n = 0 THEN 0 ELSE 1

RECURSIVE Pow10(_)
Pow10(n) == IF n <= 0 THEN 1 ELSE 10 * Pow10(n - 1)

\* float(m * 10^e), truncated to four significant digits
RECURSIVE Fin(_, _)
Fin(m, e) ==
    IF m = 0 THEN [k |-> "fin", m |-> 0, e |-> 0]
    ELSE IF Abs(m) >= 10000 THEN Fin(Sgn(m) * (Abs(m) \div 10), e + 1)
    ELSE IF Abs(m) < 1000 THEN Fin(m * 10, e - 1)
    ELSE [k |-> "fin", m |-> m, e |-> e]

NaN == [k |-> "nan", m |-> 0, e |-> 0]
NegInf == [k |-> "ninf", m |-> 0, e |-> 0]
Complex == [k |-> "cplx", m |-> 0, e |-> 0]

Pi == Fin(3142, -3)

\* float * float
Mul(a, b) ==
    IF a.k = "cplx" \/ b.k = "cplx" THEN Complex
    ELSE IF a.k = "nan" \/ b.k = "nan" THEN NaN
    ELSE IF a.k = "ninf" \/ b.k = "ninf" THEN
        \* -inf times a positive finite factor (the only product with -inf the
        \* program forms); 0 * -inf is nan
        (IF (a.k = "fin" /\ a.m = 0) \/ (b.k = "fin" /\ b.m = 0) THEN NaN ELSE NegInf)
    ELSE Fin(a.m * b.m, a.e + b.e)

\* float + float
Add(a, b) ==
    IF a.k = "nan" \/ b.k = "nan" THEN NaN
    ELSE IF a.k = "ninf" \/ b.k = "ninf" THEN NegInf
    ELSE IF a.m = 0 THEN b
    ELSE IF b.m = 0 THEN a
    ELSE IF a.e - b.e > 4 THEN a
    ELSE IF b.e - a.e > 4 THEN b
    ELSE IF a.e >= b.e THEN Fin(a.m * Pow10(a.e - b.e) + b.m, b.e)
    ELSE Fin(b.m * Pow10(b.e - a.e) + a.m, a.e)

Neg(a) == [a EXCEPT !.m = -a.m]

\* float / float, for a finite non-zero divisor
Div(a, b) ==
    Fin(Sgn(a.m) * Sgn(b.m) * ((Abs(a.m) * 100000) \div Abs(b.m)), a.e - b.e - 5)

\* a > b on finite floats; any comparison with nan is False
Gt(a, b) ==
    IF a.k = "nan" \/ b.k = "nan" THEN FALSE
    ELSE IF a.k = "ninf" THEN FALSE
    ELSE IF b.k = "ninf" THEN TRUE
    ELSE IF Sgn(a.m) # Sgn(b.m) THEN Sgn(a.m) > Sgn(b.m)
    ELSE IF a.m = 0 THEN FALSE
    ELSE IF a.m > 0 THEN (a.e > b.e \/ (a.e = b.e /\ a.m > b.m))
    ELSE (a.e < b.e \/ (a.e = b.e /\ a.m > b.m))

\* int(x): truncation toward zero of a finite float
TruncInt(x) ==
    IF x.e >= 0 THEN x.m * Pow10(x.e)
    ELSE IF x.e < -4 THEN 0
    ELSE Sgn(x.m) * (Abs(x.m) \div Pow10(-x.e))

\* round(x, 2) of a finite float, in hundredths (round half to even)
RoundHalfEven(n, d) ==
    LET q == n \div d
        r == n % d
    IN  IF 2 * r > d \/ (2 * r = d /\ q % 2 = 1) THEN q + 1 ELSE q

Round2(x) ==
    IF x.e >= -2 THEN x.m * Pow10(x.e + 2)
    ELSE IF x.e < -7 THEN 0
    ELSE Sgn(x.m) * RoundHalfEven(Abs(x.m), Pow10(-2 - x.e))

\* round(x, 1): nan stays nan, a finite float is rounded to tenths
Round1(x) ==
    IF x.k # "fin" THEN x
    ELSE IF x.e >= -1 THEN x
    ELSE IF x.e < -6 THEN Fin(0, 0)
    ELSE Fin(Sgn(x.m) * RoundHalfEven(Abs(x.m), Pow10(-1 - x.e)), -1)

\* x ** (1/3) for a finite float x > 0: the largest three-digit c with c^3 <= t,
\* where t is the mantissa scaled so that the remaining exponent is a multiple of 3
CubeRoot(x) ==
    LET j == 3 + ((x.e - 3) % 3)
        t == x.m * Pow10(j)
        c == CHOOSE c \in 100..999 : c * c * c <= t /\ (c = 999 \/ (c + 1) * (c + 1) * (c + 1) > t)
    IN  Fin(c, (x.e - j) \div 3)

\* the fractional bits of log10(y / 1000) for 1000 <= y < 10000, in thousandths:
\* square, and when the square reaches 10 take the bit and divide by 10
RECURSIVE LogBits(_, _)
LogBits(y, w) ==
    IF w = 0 THEN 0
    ELSE LET y2 == (y * y) \div 1000
         IN  IF y2 >= 10000 THEN w + LogBits(y2 \div 10, w \div 2)
             ELSE LogBits(y2, w \div 2)

\* np.log10(x): nan below zero, -inf at zero (numpy warns, it does not raise)
Log10(x) ==
    IF x.k # "fin" THEN NaN
    ELSE IF x.m < 0 THEN NaN
    ELSE IF x.m = 0 THEN NegInf
    ELSE Add(Fin(x.e + 3, 0), Fin(LogBits(x.m, 500), -3))

\* variant: max(magnitude, 0), the arguments the other way round
PyMaxSwapped(a, b) == IF Gt(a, b) THEN a ELSE b

\* Python's max(a, b): b only when b > a, so a nan in second place is dropped
PyMax(a, b) == IF Gt(b, a) THEN b ELSE a

\* ------------------------------------------------------ hazard calculations
\* asteroid_kinetic_energy(diameter_m, velocity_km_s, density=3000), in megatons
AsteroidKineticEnergy(diameter_m, velocity_km_s) ==
    LET radius == Div(Fin(diameter_m, 0), Fin(2, 0))
        volume == Mul(Mul(Div(Fin(4, 0), Fin(3, 0)), Pi), Mul(Mul(radius, radius), radius))
        mass == Mul(Fin(AsteroidDensity, 0), volume)
        velocity == Mul(Fin(velocity_km_s, 0), Fin(1000, 0))
        energy_joules == Mul(Mul(Fin(5, -1), mass), Mul(velocity, velocity))
    IN  Div(energy_joules, Fin(4184, 12))

\* impact_radius_km(megatons): a negative float to the power 1/3 is a complex
\* number in Python, 0.0 ** (1/3) is 0.0
ImpactRadiusKm(megatons) ==
    IF megatons.m < 0 THEN Complex
    ELSE IF megatons.m = 0 THEN Fin(0, 0)
    ELSE Mul(Fin(15, -1), CubeRoot(megatons))

\* population_affected(pop_density_per_km2, radius_km): int() of a complex
\* number raises TypeError
PopulationAffected(pop_density_per_km2, radius_km) ==
    LET area_km2 == Mul(Pi, Mul(radius_km, radius_km))
        people == Mul(area_km2, Fin(pop_density_per_km2, 0))
    IN  IF people.k = "cplx" THEN [raised |-> "TypeError", val |-> 0]
        ELSE [raised |-> "none", val |-> TruncInt(people)]

\* impact_earthquake_magnitude(megatons)
ImpactEarthquakeMagnitude(megatons) ==
    LET E_joules == Mul(megatons, Fin(4184, 12))
        magnitude == Add(Mul(Fin(67, -2), Log10(E_joules)), Neg(Fin(107, -1)))
    IN  Round1(PyMax(Fin(0, 0), magnitude))

\* ------------------------------------------------------------ impact store
\* Contents of impacts.json: no file, a file that is no JSON text (what
\* open(IMPACT_FILE, "w") leaves until json.dump has written: an empty or
\* partly written file), or the JSON text of a list of records.
\* size is the length of the text, counted in records.
Missing == [st |-> "missing", recs |-> << >>, size |-> 0]
Truncated == [st |-> "malformed", recs |-> << >>, size |-> 0]
Garbage(n) == [st |-> "malformed", recs |-> << >>, size |-> n]

\* json.dump(impacts, f, indent=2): the text of the list
JsonDump(impacts) == [st |-> "json", recs |-> impacts, size |-> Len(impacts)]

\* json.load(f): the list back from its text, JSONDecodeError on anything else
JsonLoad(f) ==
    IF f.st = "json" THEN [raised |-> "none", val |-> f.recs]
    ELSE [raised |-> "JSONDecodeError", val |-> << >>]

\* variant: load_impacts without the except clause
LoadImpactsNoCatch(f) ==
    IF f.st # "missing" THEN JsonLoad(f) ELSE [raised |-> "none", val |-> << >>]

\* load_impacts() on file content f
LoadImpacts(f) ==
    IF f.st # "missing" THEN
        LET r == JsonLoad(f)
        IN  IF r.raised = "JSONDecodeError" THEN [raised |-> "none", val |-> << >>] ELSE r
    ELSE [raised |-> "none", val |-> << >>]

\* impacts.append(impact)
AppendImpact(impacts, impact) == Append(impacts, impact)

\* [i for i in impacts if i["id"] != impact_id]
NewImpacts(impacts, impact_id) == SelectSeq(impacts, LAMBDA i : i.id # impact_id)

\* HISTORICAL_IMPACTS
HistoricalImpacts ==
    << [id |-> "chicxulub", name |-> "Chicxulub (66Mya)", size |-> Fin(10, 0),
        speed |-> Fin(20, 0), lat |-> Fin(214, -1), lon |-> Fin(-890, -1)],
       [id |-> "tunguska", name |-> "Tunguska (1908)", size |-> Fin(5, -2),
        speed |-> Fin(16, 0), lat |-> Fin(609, -1), lon |-> Fin(1019, -1)],
       [id |-> "chelyabinsk", name |-> "Chelyabinsk (2013)", size |-> Fin(2, -2),
        speed |-> Fin(19, 0), lat |-> Fin(549, -1), lon |-> Fin(611, -1)] >>

\* variant: simulated + HISTORICAL_IMPACTS
CombinedSwapped(historical_impacts, simulated) == simulated \o historical_impacts

\* HISTORICAL_IMPACTS + simulated
Combined(historical_impacts, simulated) == historical_impacts \o simulated

\* f"sim_{np.random.randint(10000,99999)}" for a drawn number n
SimId(n) == "sim_" \o ToString(n)

\* ------------------------------------------------------------------ state
VARIABLES
    file,        \* content of impacts.json
    historical,  \* the module-level list HISTORICAL_IMPACTS
    last,        \* the last request served one at a time: what it was given and answered
    worker,      \* interleaved requests: each worker's position and locals
    writes,      \* how many times the file was opened for writing or written
    hz           \* hazard functions applied to drawn inputs

vars == << file, historical, last, worker, writes, hz >>

\* ----------------------------------------------------------------- inputs
Diameters == {-10, 0, DefaultDiameter}
Velocities == {-5, 0, DefaultVelocity}
PopDensities == {-1, DefaultPopDensity}
\* np.random.randint(10000, 99999) draws from RandLow .. RandHigh - 1
RandomDraws == {RandLow, RandHigh - 1}
DeleteIds == {SimId(n) : n \in RandomDraws} \cup {"sim_55555", "chicxulub"}
Workers == {1, 2}
HazardInputs == {Fin(m, e) : m \in -MaxMant..MaxMant, e \in -1..MaxExp}

\* ------------------------------------------------------- simulate_impact
\* Lines 176-192 of simulate_impact on the request fields (latitude and
\* longitude are both given, as 0, or both absent): the record to save, or
\* the exception raised before save_impact is reached.
Simulated(diameter, velocity, coords, pop_density, n) ==
    LET energy_mt == AsteroidKineticEnergy(diameter, velocity)
        radius_km == ImpactRadiusKm(energy_mt)
        population == PopulationAffected(pop_density, radius_km)
        earthquake_mag == ImpactEarthquakeMagnitude(energy_mt)
    IN  IF population.raised # "none" THEN [raised |-> population.raised, result |-> [id |-> ""]]
        ELSE IF ~coords THEN [raised |-> "TypeError", result |-> [id |-> ""]]
        ELSE [raised |-> "none",
              result |-> [id |-> SimId(n),
                          name |-> << "Simulated Impact", 0, 0 >>,
                          latitude |-> 0,
                          longitude |-> 0,
                          diameter_m |-> diameter,
                          velocity_km_s |-> velocity,
                          energy_megatons |-> Round2(energy_mt),
                          impact_radius_km |-> Round2(radius_km),
                          population_affected |-> population.val,
                          earthquake_magnitude |-> earthquake_mag]]

\* the hazard chain is a function of the request alone
SimTable ==
    [d \in Diameters, v \in Velocities, c \in BOOLEAN, p \in PopDensities, n \in RandomDraws |->
        Simulated(d, v, c, p, n)]

NoRequest ==
    [op |-> "none", arg |-> << >>, pre |-> Missing, loaded |-> << >>, wrote |-> FALSE,
     status |-> 0, body |-> << >>, afterHistDelete |-> FALSE]

\* save_impact(impact) on file content f: the load it makes and the content it writes
SaveImpact(f, impact) ==
    LET loaded == LoadImpacts(f)
    IN  IF loaded.raised # "none" THEN [raised |-> loaded.raised, loaded |-> loaded, out |-> f]
        ELSE [raised |-> "none", loaded |-> loaded,
              out |-> JsonDump(AppendImpact(loaded.val, impact))]

\* POST /simulate_impact
SimulateImpact ==
    \E d \in Diameters, v \in Velocities, c \in BOOLEAN, p \in PopDensities, n \in RandomDraws :
        LET sim == SimTable[d, v, c, p, n]
            arg == [diameter_m |-> d, velocity_km_s |-> v, coords |-> c,
                    pop_density_per_km2 |-> p]
            saved == SaveImpact(file, sim.result)
        IN  /\ Len(LoadImpacts(file).val) < MaxStore
            /\ IF sim.raised # "none" THEN
                   /\ file' = file
                   /\ last' = [op |-> "simulate", arg |-> arg, pre |-> file, loaded |-> << >>,
                               wrote |-> FALSE, status |-> 500, body |-> sim.raised,
                               afterHistDelete |-> FALSE]
               ELSE IF saved.raised # "none" THEN
                   /\ file' = file
                   /\ last' = [op |-> "simulate", arg |-> arg, pre |-> file,
                               loaded |-> << saved.loaded >>,
                               wrote |-> FALSE, status |-> 500, body |-> saved.raised,
                               afterHistDelete |-> FALSE]
               ELSE
                   /\ file' = saved.out
                   /\ last' = [op |-> "simulate", arg |-> arg, pre |-> file,
                               loaded |-> << saved.loaded >>,
                               wrote |-> TRUE, status |-> 200, body |-> sim.result,
                               afterHistDelete |-> FALSE]
            /\ UNCHANGED << historical, worker, writes, hz >>

\* variant: delete_impact without the length check and its 404 return
DeleteFromNoReturn(f, impact_id) ==
    LET loaded == LoadImpacts(f)
    IN  [loaded |-> loaded, wrote |-> TRUE,
         out |-> JsonDump(NewImpacts(loaded.val, impact_id)), status |-> 200,
         body |-> [message |-> impact_id]]

\* delete_impact(impact_id) on file content f: the load, whether the file is
\* rewritten and with what, and the response
DeleteFrom(f, impact_id) ==
    LET loaded == LoadImpacts(f)
        impacts == loaded.val
        new_impacts == NewImpacts(impacts, impact_id)
    IN  IF loaded.raised # "none" THEN
            [loaded |-> loaded, wrote |-> FALSE, out |-> f, status |-> 500,
             body |-> [error |-> loaded.raised]]
        ELSE IF Len(new_impacts) = Len(impacts) THEN
            [loaded |-> loaded, wrote |-> FALSE, out |-> f, status |-> 404,
             body |-> [error |-> "Impact not found"]]
        ELSE
            [loaded |-> loaded, wrote |-> TRUE, out |-> JsonDump(new_impacts), status |-> 200,
             body |-> [message |-> impact_id]]

\* DELETE /delete_impact/<impact_id>
DeleteImpact ==
    \E impact_id \in DeleteIds :
        LET r == DeleteFrom(file, impact_id)
        IN  /\ file' = r.out
            /\ last' = [op |-> "delete", arg |-> impact_id, pre |-> file,
                        loaded |-> << r.loaded >>, wrote |-> r.wrote,
                        status |-> r.status, body |-> r.body, afterHistDelete |-> FALSE]
            /\ UNCHANGED << historical, worker, writes, hz >>

\* history: the request before this one was a delete naming a historical id
HistoricalDelete ==
    /\ last.op = "delete"
    /\ \E i \in 1..Len(historical) : historical[i].id = last.arg

\* GET /get_impacts
GetImpacts ==
    LET simulated == LoadImpacts(file)
    IN  /\ last' = IF simulated.raised # "none"
                   THEN [op |-> "get", arg |-> << >>, pre |-> file, loaded |-> << simulated >>,
                         wrote |-> FALSE, status |-> 500, body |-> << >>,
                         afterHistDelete |-> HistoricalDelete]
                   ELSE [op |-> "get", arg |-> << >>, pre |-> file, loaded |-> << simulated >>,
                         wrote |-> FALSE, status |-> 200,
                         body |-> Combined(historical, simulated.val),
                         afterHistDelete |-> HistoricalDelete]
        /\ UNCHANGED << file, historical, worker, writes, hz >>

\* ------------------------------------------------- interleaved requests
\* Two requests served at the same time (threaded or multi-process serving):
\* each handler's file accesses are its steps.  load_impacts is one read;
\* open(IMPACT_FILE, "w") truncates the file; json.dump and the close of the
\* with block write the text at the writer's own offset 0.
Idle == [pc |-> "idle", op |-> "none", arg |-> "", impact |-> [id |-> ""], impacts |-> << >>,
         out |-> << >>, loadVer |-> 0, status |-> 0, ops |-> 0]

\* The file after a writer that truncated it earlier writes the text of `mine`
\* at offset 0 over content f: text already there beyond the end of the new
\* text stays, and the result is no JSON text.  Texts of as many records can
\* be of either length.
Written(f, mine) ==
    IF f.size > Len(mine) THEN {Garbage(f.size)}
    ELSE IF f.size = Len(mine) /\ f.size > 0 /\ f # JsonDump(mine)
        THEN {JsonDump(mine), Garbage(f.size)}
    ELSE {JsonDump(mine)}

\* simulate_impact up to the load and append of save_impact (lines 169-182, 81-82)
SimStart(p) ==
    \E n \in RandomDraws :
        LET sim == SimTable[DefaultDiameter, DefaultVelocity, TRUE, DefaultPopDensity, n]
            loaded == LoadImpacts(file)
        IN  /\ worker[p].pc \in {"idle", "done"}
            /\ worker[p].ops < MaxOps
            /\ Len(loaded.val) < MaxStore
            /\ worker' = [worker EXCEPT ![p] =
                   [pc |-> "open", op |-> "simulate", arg |-> "", impact |-> sim.result,
                    impacts |-> loaded.val, out |-> AppendImpact(loaded.val, sim.result),
                    loadVer |-> writes, status |-> 0, ops |-> worker[p].ops + 1]]
            /\ UNCHANGED << file, historical, last, writes, hz >>

\* delete_impact up to the 404 return (lines 204-207)
DelStart(p) ==
    \E impact_id \in DeleteIds :
        LET r == DeleteFrom(file, impact_id)
        IN  /\ worker[p].pc \in {"idle", "done"}
            /\ worker[p].ops < MaxOps
            /\ worker' = [worker EXCEPT ![p] =
                   [pc |-> IF r.wrote THEN "open" ELSE "done", op |-> "delete",
                    arg |-> impact_id, impact |-> [id |-> ""],
                    impacts |-> r.loaded.val, out |-> r.out.recs,
                    loadVer |-> writes, status |-> IF r.wrote THEN 0 ELSE r.status,
                    ops |-> worker[p].ops + 1]]
            /\ UNCHANGED << file, historical, last, writes, hz >>

\* variant: the list is loaded again when the file is opened for writing, so
\* load, change and truncation are one step
OpenReload(p) ==
    LET now == LoadImpacts(file).val
        w == worker[p]
    IN  /\ w.pc = "open"
        /\ file' = Truncated
        /\ writes' = writes + 1
        /\ worker' = [worker EXCEPT ![p].pc = "dump",
                                    ![p].out = IF w.op = "simulate"
                                               THEN AppendImpact(now, w.impact)
                                               ELSE NewImpacts(now, w.arg)]
        /\ UNCHANGED << historical, last, hz >>

\* open(IMPACT_FILE, "w") (lines 83, 208)
Open(p) ==
    /\ worker[p].pc = "open"
    /\ file' = Truncated
    /\ writes' = writes + 1
    /\ worker' = [worker EXCEPT ![p].pc = "dump"]
    /\ UNCHANGED << historical, last, hz >>

\* json.dump(...), the close of the file and the 200 response (lines 84, 195, 209-210)
Dump(p) ==
    /\ worker[p].pc = "dump"
    /\ file' \in Written(file, worker[p].out)
    /\ writes' = writes + 1
    /\ worker' = [worker EXCEPT ![p].pc = "done", ![p].status = 200]
    /\ UNCHANGED << historical, last, hz >>

\* ------------------------------------------- hazard functions on their own
HzStart(mt) == [stage |-> "in", megatons |-> mt, prev |-> << >>, cur |-> << >>]

\* impact_radius_km and impact_earthquake_magnitude applied to the drawn energy
HazardApply ==
    /\ hz.stage = "in"
    /\ hz' = [hz EXCEPT !.stage = "out",
                        !.cur = << [megatons |-> hz.megatons,
                                    radius_km |-> ImpactRadiusKm(hz.megatons),
                                    magnitude |-> ImpactEarthquakeMagnitude(hz.megatons)] >>]
    /\ UNCHANGED << file, historical, last, worker, writes >>

\* the next energy is drawn; the last result is kept for comparison
HazardDraw ==
    /\ hz.stage = "out"
    /\ \E mt \in HazardInputs :
           hz' = [stage |-> "in", megatons |-> mt, prev |-> hz.cur, cur |-> << >>]
    /\ UNCHANGED << file, historical, last, worker, writes >>

InitHazard ==
    /\ file = Missing
    /\ historical = HistoricalImpacts
    /\ last = NoRequest
    /\ worker = [p \in Workers |-> Idle]
    /\ writes = 0
    /\ \E mt \in HazardInputs : hz = HzStart(mt)

NextHazard == HazardApply \/ HazardDraw

SpecHazard == InitHazard /\ [][NextHazard]_vars

\* The process starts with no impacts.json, or with the file an interrupted
\* writer left behind (opened for writing, nothing dumped).
Init ==
    /\ file \in {Missing, Truncated}
    /\ historical = HistoricalImpacts
    /\ last = NoRequest
    /\ worker = [p \in Workers |-> Idle]
    /\ writes = 0
    /\ hz = HzStart(Fin(0, 0))

Next == SimulateImpact \/ DeleteImpact \/ GetImpacts

Spec == Init /\ [][Next]_vars

NextRace == \E p \in Workers : SimStart(p) \/ DelStart(p) \/ Open(p) \/ Dump(p)

SpecRace == Init /\ [][NextRace]_vars

\* ================================================================ claims
Stored == LoadImpacts(file).val
StoredBefore == LoadImpacts(last.pre).val
Count(e, impacts) == Cardinality({i \in 1..Len(impacts) : impacts[i] = e})
HasId(impacts, impact_id) == \E i \in 1..Len(impacts) : impacts[i].id = impact_id

\* C1 (as claimed): after save_impact(e) the loaded list contains e exactly
\* once, and after delete_impact(id) it contains no record with that id.
C1_RoundTrip ==
    /\ (last.op = "simulate" /\ last.status = 200) => Count(last.body, Stored) = 1
    /\ (last.op = "delete" /\ last.status = 200) => ~HasId(Stored, last.arg)

\* C2: delete_impact with an id that no stored record has answers 404 with
\* the error body and leaves impacts.json as it was, not rewritten.
C2_DeleteAbsent ==
    (last.op = "delete" /\ ~HasId(StoredBefore, last.arg)) =>
        /\ last.status = 404
        /\ last.body = [error |-> "Impact not found"]
        /\ ~last.wrote
        /\ file = last.pre

C2_Witness ==
    /\ last.op = "delete"
    /\ last.status = 404
    /\ Len(Stored) >= 1
    /\ last.arg \in {SimId(n) : n \in RandomDraws}

\* C3 (as claimed): a successful delete_impact leaves the store exactly one
\* record smaller.
C3_DeleteOne ==
    (last.op = "delete" /\ last.status = 200) => Len(Stored) = Len(StoredBefore) - 1

\* C4: get_impacts answers the three historical events, in order, followed by
\* the stored records in store order, and HISTORICAL_IMPACTS never changes,
\* whatever was requested before.
C4_Catalog ==
    /\ historical = HistoricalImpacts
    /\ last.op = "get" =>
        /\ last.status = 200
        /\ Len(last.body) = 3 + Len(Stored)
        /\ last.body[1].id = "chicxulub"
        /\ last.body[2].id = "tunguska"
        /\ last.body[3].id = "chelyabinsk"
        /\ \A i \in 1..3 : last.body[i] = HistoricalImpacts[i]
        /\ \A i \in 1..Len(Stored) : last.body[3 + i] = Stored[i]

C4_Witness ==
    /\ last.op = "get"
    /\ last.afterHistDelete
    /\ Len(Stored) >= 2
    /\ Len(last.body) = 5

\* C5 (as claimed): a simulate request with diameter_m <= 0, velocity_km_s <= 0
\* or a negative population density is answered with an error and saves nothing.
C5_InvalidInput ==
    (last.op = "simulate" /\ (\/ last.arg.diameter_m <= 0
                              \/ last.arg.velocity_km_s <= 0
                              \/ last.arg.pop_density_per_km2 < 0)) =>
        /\ last.status # 200
        /\ file = last.pre

\* C6 (as claimed): no two stored records have the same id.
C6_UniqueIds ==
    \A i, j \in 1..Len(Stored) : i # j => Stored[i].id # Stored[j].id

C8_MagnitudeNonNegative ==
    \A k \in 1..Len(hz.cur) :
        /\ hz.cur[k].magnitude.k = "fin"
        /\ hz.cur[k].magnitude.m >= 0
        /\ hz.cur[k].megatons.m <= 0 => hz.cur[k].magnitude = Fin(0, 0)

C8_Witness ==
    /\ Len(hz.cur) = 1
    /\ hz.cur[1].megatons.m < 0
    /\ hz.cur[1].magnitude = Fin(0, 0)
    /\ Len(hz.prev) = 1
    /\ hz.prev[1].magnitude.m > 0

\* C9 (as claimed): impact_radius_km is non-decreasing in megatons, is exactly
\* 0 for megatons <= 0 and is always a real number.
C9_Radius ==
    /\ \A k \in 1..Len(hz.cur) :
        /\ hz.cur[k].radius_km.k = "fin"
        /\ hz.cur[k].megatons.m <= 0 => hz.cur[k].radius_km = Fin(0, 0)
    /\ \A k \in 1..Len(hz.cur), j \in 1..Len(hz.prev) :
        ~Gt(hz.prev[j].megatons, hz.cur[k].megatons) =>
            /\ hz.prev[j].radius_km.k = "fin"
            /\ hz.cur[k].radius_km.k = "fin"
            /\ ~Gt(hz.prev[j].radius_km, hz.cur[k].radius_km)

\* two requests that have both been answered 200 and whose loads saw the
\* same file, neither having written yet
RacedPair(p, q) ==
    /\ p # q
    /\ worker[p].pc = "done" /\ worker[p].status = 200
    /\ worker[q].pc = "done" /\ worker[q].status = 200
    /\ worker[p].loadVer = worker[q].loadVer

\* C10: when two writers both load before either writes, one writer's effect
\* is lost although both are answered 200: two appends leave fewer than two
\* more records, and an append with a delete of another id never leaves the
\* list with the one added and the other removed.
C10_LostUpdate ==
    \A p, q \in Workers :
        RacedPair(p, q) /\ worker[p].op = "simulate" =>
            /\ worker[q].op = "simulate" => Len(Stored) < Len(worker[p].impacts) + 2
            /\ (worker[q].op = "delete" /\ worker[q].arg # worker[p].impact.id) =>
                   Stored # AppendImpact(NewImpacts(worker[p].impacts, worker[q].arg),
                                         worker[p].impact)

C10_Witness ==
    \E p, q \in Workers :
        /\ RacedPair(p, q)
        /\ worker[p].op = "simulate" /\ worker[q].op = "simulate"
        /\ worker[p].impact # worker[q].impact
        /\ file = JsonDump(worker[q].out)
        /\ Count(worker[p].impact, Stored) = 0
        /\ Count(worker[q].impact, Stored) = 1

====
